---- MODULE Spec2Model ----
(***************************************************************************)
(* Model of the KPI forecasting pipeline of prophet_functions.py and of    *)
(* the acceptance check Dashboard.py runs on its result.                   *)
(*                                                                         *)
(* Strings are sequences of characters.  A Korean word of an indicator     *)
(* name is written as one character, romanized; the blanks between the     *)
(* words are kept.                                                         *)
(* Dates are month ordinals (year * 12 + month - 1).                       *)
(***************************************************************************)
EXTENDS Integers, Sequences, FiniteSets, TLC

VARIABLES
    normIn,            \* the strings handed to _norm
    normOut,           \* the keys _norm returned for them
    caller,            \* "Dashboard" (Dashboard.py:58) or "direct" (any other call)
    module_threshold,  \* prophet_functions.threshold_df after import (lines 35-61)
    last_df,           \* argument last_df of evaluate_forecast_model_prophet
    threshold_df,      \* argument threshold_df of evaluate_forecast_model_prophet
    forecast_months,   \* argument forecast_months
    pre_close_months,  \* argument pre_close_months
    pc,                \* position in the call
    total_df,          \* the windowed table (line 107)
    idx,               \* position of the loop of line 113 in indicators
    results,           \* the list results (line 111)
    printed,           \* the skip messages printed so far
    evalCalls,         \* the (y_true, y_pred) pairs handed to evaluate_forecast
    raised,            \* the exception that left the call, or "none"
    returned,          \* the table the call returned
    dashboard          \* what Dashboard.py did after the call

vars == <<normIn, normOut, caller, module_threshold, last_df, threshold_df,
          forecast_months, pre_close_months, pc, total_df, idx, results,
          printed, evalCalls, raised, returned, dashboard>>

normVars == <<normIn, normOut>>

callVars == <<caller, module_threshold, last_df, threshold_df,
              forecast_months, pre_close_months>>

runVars == <<pc, total_df, idx, results, printed, evalCalls, raised,
             returned, dashboard>>

----------------------------------------------------------------------------
(* Characters and _norm                                                     *)

SPACE == " "
NBSP == "U+00A0"
ZWSP == "U+200B"

\* What \s of a Python 3 str pattern matches, and what str.strip() strips:
\* Unicode whitespace.  U+00A0 is whitespace, U+200B (category Cf) is not.
IsSpace(c) == c \in {SPACE, NBSP}

\* re.sub(r'\s+', '', s): every run of whitespace is replaced by nothing.
ReSubSpaces(s) == SelectSeq(s, LAMBDA c : ~IsSpace(c))

\* s.replace(ch, '')
Replace(s, ch) == SelectSeq(s, LAMBDA c : c /= ch)

RECURSIVE LStrip(_)
LStrip(s) ==
    IF s /= <<>> /\ IsSpace(Head(s)) THEN LStrip(Tail(s)) ELSE s

RECURSIVE RStrip(_)
RStrip(s) ==
    IF s /= <<>> /\ IsSpace(s[Len(s)])
    THEN RStrip(SubSeq(s, 1, Len(s) - 1))
    ELSE s

\* s.strip()
Strip(s) == RStrip(LStrip(s))

\* The variant of _norm that forgets the zero-width space.
NormKeepsZwsp(s) == Strip(Replace(ReSubSpaces(s), NBSP))

\* _norm (prophet_functions.py:56)
_norm(s) == Strip(Replace(Replace(ReSubSpaces(s), NBSP), ZWSP))

----------------------------------------------------------------------------
(* Tables                                                                   *)

\* The KPI table is [columns, rows]: columns are the names of the indicator
\* columns, a row is [merchant, ym, closed, values] with values[k] the cell of
\* columns[k], "nan" when missing.  The columns of the merchant id, the
\* year-month and the closure flag are always there.
\* The threshold table is a sequence of rows [label, warn, danger]; label is
\* the index entry, warn and danger the cells of warn_col and danger_col.

None == <<"None">>
NaN == "nan"

NumberCell(n) == [kind |-> "number", n |-> n, text |-> ""]
StringCell(t) == [kind |-> "string", n |-> 0, text |-> t]

\* float(x): a number is kept, a numeric string is parsed, any other string
\* raises ValueError.
Float(x) ==
    IF x.kind = "number" THEN [ok |-> TRUE, f |-> x.n]
    ELSE IF x.text = "5.0" THEN [ok |-> TRUE, f |-> 5]
    ELSE IF x.text = "8.0" THEN [ok |-> TRUE, f |-> 8]
    ELSE [ok |-> FALSE, f |-> 0]

\* pd.to_datetime(ym, format="%Y%m"), as a month ordinal.
ToDatetime(ym) == (ym \div 100) * 12 + (ym % 100) - 1

\* The order of sort_values(["merchant", "ds"]).
LessMerchantDs(a, b) ==
    \/ a.merchant < b.merchant
    \/ (a.merchant = b.merchant /\ a.ds < b.ds)

\* sort_values(["merchant", "ds"]) (lines 101 and 107): each row is put after
\* the rows already placed that are not greater.
SortRows(rows) ==
    LET insert(done, x) ==
            LET k == Cardinality({j \in 1..Len(done) : ~LessMerchantDs(x, done[j])})
            IN  SubSeq(done, 1, k) \o <<x>> \o SubSeq(done, k + 1, Len(done))
        sorted[m \in 0..Len(rows)] ==
            IF m = 0 THEN <<>> ELSE insert(sorted[m - 1], rows[m])
    IN  sorted[Len(rows)]

\* sort_values("ds") on the dates alone (line 130).
SortDates(dates) ==
    LET insert(done, x) ==
            LET k == Cardinality({j \in 1..Len(done) : done[j] <= x})
            IN  SubSeq(done, 1, k) \o <<x>> \o SubSeq(done, k + 1, Len(done))
        sorted[m \in 0..Len(dates)] ==
            IF m = 0 THEN <<>> ELSE insert(sorted[m - 1], dates[m])
    IN  sorted[Len(dates)]

\* The variant of tail that keeps the first n rows of a group.
HeadRows(g, n) ==
    IF n = 0 THEN <<>>
    ELSE IF n >= Len(g) THEN g
    ELSE SubSeq(g, 1, n)

\* DataFrame.tail(n): the last n rows, none when n = 0.
TailRows(g, n) ==
    IF n = 0 THEN <<>>
    ELSE IF n >= Len(g) THEN g
    ELSE SubSeq(g, Len(g) - n + 1, Len(g))

\* groupby(merchant, group_keys=False).apply(f): the groups in ascending key
\* order, each in the order of the frame, f applied and the pieces joined.
RECURSIVE ApplyGroups(_, _, _)
ApplyGroups(rows, keys, n) ==
    IF keys = {} THEN <<>>
    ELSE LET k == CHOOSE x \in keys : \A y \in keys : x <= y
         IN  TailRows(SelectSeq(rows, LAMBDA r : r.merchant = k), n)
             \o ApplyGroups(rows, keys \ {k}, n)

Merchants(rows) == {rows[k].merchant : k \in 1..Len(rows)}

\* Lines 92-93: the copy of last_df with the column ds.
WithDs(df) ==
    [columns |-> df.columns,
     rows |-> [k \in 1..Len(df.rows) |->
                 [merchant |-> df.rows[k].merchant,
                  ds |-> ToDatetime(df.rows[k].ym),
                  closed |-> df.rows[k].closed,
                  values |-> df.rows[k].values]]]

\* Lines 96-107: the windowed table.
Windowed(df, n) ==
    LET d == WithDs(df)
        alive_df == SelectSeq(d.rows, LAMBDA r : r.closed = 0)
        closed_df == SelectSeq(d.rows, LAMBDA r : r.closed = 1)
        sorted == SortRows(closed_df)
        closed_pre == ApplyGroups(sorted, Merchants(sorted), n)
        total == alive_df \o closed_pre
    IN  [columns |-> d.columns, rows |-> SortRows(total)]

----------------------------------------------------------------------------
(* Module state built at import (lines 33-71)                               *)

\* Lines 41-42 and 60: the index entry is the name with every ordinary space
\* taken out, then stripped.
LoadThreshold(file) ==
    [k \in 1..Len(file) |->
        [label |-> Strip(Replace(file[k].label, SPACE)),
         warn |-> file[k].warn,
         danger |-> file[k].danger]]

\* _idx_map.get(key, None) (lines 66 and 115): of the index entries with this
\* key the dict comprehension keeps the last.
IdxMapGet(key) ==
    LET hits == {k \in 1..Len(module_threshold) :
                    _norm(module_threshold[k].label) = key}
    IN  IF hits = {} THEN None
        ELSE module_threshold[CHOOSE k \in hits : \A j \in hits : j <= k].label

----------------------------------------------------------------------------
(* The loop of evaluate_forecast_model_prophet                              *)

\* indicators (line 110)
indicators ==
    << <<"maechulanjeongseongjipyo">>,
       <<"gyeongjaenguwi", SPACE, "jipyo">>,
       <<"gogaek", SPACE, "chungseongdo", SPACE, "jipyo">> >>

\* english_title (lines 174-178)
EnglishTitle(target) ==
    IF target = indicators[1] THEN <<"Sales Stability Index">>
    ELSE IF target = indicators[2] THEN <<"Competitive Advantage Index">>
    ELSE IF target = indicators[3] THEN <<"Customer Loyalty Index">>
    ELSE target

\* Minimum number of points of a series (line 131).
MinPoints == 10

InSeq(x, seq) == \E k \in 1..Len(seq) : seq[k] = x

\* Lines 122-128: the column of the indicator, None when there is none.
ResolveColumn(target, columns) ==
    IF InSeq(target, columns) THEN target
    ELSE LET alt == SelectSeq(columns, LAMBDA c : _norm(c) = _norm(target))
         IN  IF alt /= <<>> THEN alt[1] ELSE None

ColumnPos(col, columns) ==
    CHOOSE k \in 1..Len(columns) :
        columns[k] = col /\ \A j \in 1..(k - 1) : columns[j] /= col

\* Line 130: the dates of the rows whose cell is not missing, sorted.  The
\* values themselves are not followed, only which rows carry one.
SubDates(df, col) ==
    LET p == ColumnPos(col, df.columns)
        kept == SelectSeq(df.rows, LAMBDA r : r.values[p] /= NaN)
    IN  SortDates([k \in 1..Len(kept) |-> kept[k].ds])

\* Lines 147-148: the dates of the forecast frame.  make_future_dataframe
\* keeps the distinct dates of the history, sorted, and appends `periods`
\* month starts after the last; predict returns one row per date.
ForecastDates(sub, periods) ==
    LET s == {sub[k] : k \in 1..Len(sub)}
        hist == [k \in 1..Cardinality(s) |->
                   CHOOSE d \in s : Cardinality({e \in s : e < d}) = k - 1]
        last == hist[Len(hist)]
    IN  hist \o [k \in 1..periods |-> last + k]

Min(a, b) == IF a <= b THEN a ELSE b

\* series.iloc[-k:] for 0 <= k <= len(series): -0 is 0, so k = 0 takes all.
ILocTail(seq, k) ==
    IF k = 0 THEN seq ELSE SubSeq(seq, Len(seq) - k + 1, Len(seq))

\* Line 151
YTrue(sub, periods) == ILocTail(sub, Min(periods, Len(sub)))

\* The variant of line 152 that takes the fitted values of the last observed
\* dates instead of the end of the frame.
YPredInSample(forecast, periods) ==
    LET h == Len(forecast) - periods
    IN  ILocTail(SubSeq(forecast, 1, h), Min(periods, h))

\* Line 152
YPred(forecast, periods) == ILocTail(forecast, Min(periods, Len(forecast)))

\* evaluate_forecast (lines 76-80): mean_absolute_error refuses two samples
\* of different lengths with ValueError; the numbers are not followed.
EvaluateForecast(y_true, y_pred) ==
    IF Len(y_true) /= Len(y_pred) THEN "ValueError" ELSE "ok"

\* threshold_df.loc[label, col] followed by float() (lines 156-157).
ReadThreshold(table, label, field) ==
    LET hits == SelectSeq(table, LAMBDA r : r.label = label)
    IN  IF hits = <<>> THEN [exc |-> "KeyError", f |-> 0]
        ELSE IF Len(hits) > 1 THEN [exc |-> "TypeError", f |-> 0]
        ELSE LET x == Float(IF field = "warn" THEN hits[1].warn ELSE hits[1].danger)
             IN  IF x.ok THEN [exc |-> "none", f |-> x.f]
                 ELSE [exc |-> "ValueError", f |-> 0]

\* The variant of the row keys with the indicator under the Korean name the
\* dashboard asks for.
RowColumnsKorean ==
    <<"Model", "jipyo", "Forecast Mean", "MAE", "RMSE", "MAPE(%)",
      "Warning Threshold", "Danger Threshold", "fig">>

\* The keys of a result row (lines 188-198), the columns of DataFrame(results).
RowColumns ==
    <<"Model", "Indicator", "Forecast Mean", "MAE", "RMSE", "MAPE(%)",
      "Warning Threshold", "Danger Threshold", "fig">>

\* The columns of the empty table (lines 203-206).
EmptyColumns ==
    <<"Model", "Indicator", "Forecast Mean", "MAE", "RMSE", "MAPE(%)",
      "Warning Threshold", "Danger Threshold">>

\* Lines 188-198
ResultRow(title, warn_th, danger_th) ==
    [c \in {RowColumns[k] : k \in 1..Len(RowColumns)} |->
        CASE c = "Model" -> <<"Prophet">>
          [] c \in {"Indicator", "jipyo"} -> title
          [] c = "Warning Threshold" -> <<warn_th>>
          [] c = "Danger Threshold" -> <<danger_th>>
          [] c = "fig" -> <<"figure">>
          [] OTHER -> <<"number">>]

\* One pass of the loop body (lines 114-198) for indicators[k]: what it
\* prints, what it hands to evaluate_forecast, and whether it skips, appends
\* a row or raises.
Iteration(k) ==
    LET target == indicators[k]
        key == _norm(target)
        matched_idx == IdxMapGet(key)
        col == ResolveColumn(target, total_df.columns)
        sub == SubDates(total_df, col)
        forecast == ForecastDates(sub, forecast_months)
        y_true == YTrue(sub, forecast_months)
        y_pred == YPred(forecast, forecast_months)
        warn == ReadThreshold(threshold_df, matched_idx, "warn")
        danger == ReadThreshold(threshold_df, matched_idx, "danger")
        call == [indicator |-> k, y_true |-> y_true, y_pred |-> y_pred,
                 points |-> Len(sub), last_observed |-> sub[Len(sub)]]
        NoCall == <<>>
    IN  IF matched_idx = None
        THEN [kind |-> "skip", why |-> "threshold", call |-> NoCall, exc |-> "none", row |-> <<>>]
        ELSE IF col = None
        THEN [kind |-> "skip", why |-> "column", call |-> NoCall, exc |-> "none", row |-> <<>>]
        ELSE IF Len(sub) < MinPoints
        THEN [kind |-> "skip", why |-> "sparse", call |-> NoCall, exc |-> "none", row |-> <<>>]
        ELSE IF EvaluateForecast(y_true, y_pred) /= "ok"
        THEN [kind |-> "raise", why |-> "evaluate", call |-> <<call>>,
              exc |-> EvaluateForecast(y_true, y_pred), row |-> <<>>]
        ELSE IF warn.exc /= "none"
        THEN [kind |-> "raise", why |-> "threshold", call |-> <<call>>, exc |-> warn.exc, row |-> <<>>]
        ELSE IF danger.exc /= "none"
        THEN [kind |-> "raise", why |-> "threshold", call |-> <<call>>, exc |-> danger.exc, row |-> <<>>]
        ELSE [kind |-> "row", why |-> "", call |-> <<call>>, exc |-> "none",
              row |-> <<ResultRow(EnglishTitle(col), warn.f, danger.f)>>]

----------------------------------------------------------------------------
(* The steps of a call                                                      *)

NoException == [exc |-> "none", indicator |-> 0, why |-> ""]

\* Lines 92-111
Windowing ==
    /\ pc = "start"
    /\ total_df' = Windowed(last_df, pre_close_months)
    /\ idx' = 1
    /\ results' = <<>>
    /\ pc' = "loop"
    /\ UNCHANGED <<normVars, callVars, printed, evalCalls, raised, returned,
                   dashboard>>

\* Lines 113-198: one pass of the loop.  Nothing in the function catches an
\* exception, so one raised in the body leaves the call.
LoopBody ==
    /\ pc = "loop"
    /\ idx <= Len(indicators)
    /\ LET it == Iteration(idx)
       IN  /\ printed' = IF it.kind = "skip"
                         THEN Append(printed, [indicator |-> idx, why |-> it.why])
                         ELSE printed
           /\ evalCalls' = evalCalls \o it.call
           /\ results' = results \o it.row
           /\ IF it.kind = "raise"
              THEN /\ pc' = "raised"
                   /\ raised' = [exc |-> it.exc, indicator |-> idx, why |-> it.why]
                   /\ idx' = idx
              ELSE /\ pc' = pc
                   /\ raised' = raised
                   /\ idx' = idx + 1
    /\ UNCHANGED <<normVars, callVars, total_df, returned, dashboard>>

\* Lines 200-209
Return ==
    /\ pc = "loop"
    /\ idx > Len(indicators)
    /\ returned' = IF results = <<>>
                   THEN [columns |-> EmptyColumns, rows |-> <<>>]
                   ELSE [columns |-> RowColumns, rows |-> results]
    /\ pc' = "returned"
    /\ UNCHANGED <<normVars, callVars, total_df, idx, results, printed,
                   evalCalls, raised, dashboard>>

\* The column Dashboard.py asks for (Dashboard.py:60 and 64).
DashboardColumn == "jipyo"

\* Dashboard.py:60
Rejected(results_df) ==
    results_df.rows = <<>> \/ ~InSeq(DashboardColumn, results_df.columns)

\* Dashboard.py:60-71: the check on the result, then st.error and st.stop, or
\* the indicator selection.
DashboardCheck ==
    /\ caller = "Dashboard"
    /\ pc = "returned"
    /\ dashboard = "called"
    /\ dashboard' = IF Rejected(returned) THEN "stopped" ELSE "selecting"
    /\ UNCHANGED <<normVars, callVars, pc, total_df, idx, results, printed,
                   evalCalls, raised, returned>>

Next == Windowing \/ LoopBody \/ Return \/ DashboardCheck

----------------------------------------------------------------------------
(* The calls                                                                *)

\* Defaults of the parameters (line 85).
ForecastMonthsDefault == 10
PreCloseMonthsDefault == 6

MaxRows == 11
MaxClosed == 2
MaxForecast == 11
MaxPreClose == 1

\* A spelling of a name that differs from it in blanks only: every space is
\* an NBSP and a zero-width space follows.
Variant(name) ==
    [k \in 1..Len(name) |-> IF name[k] = SPACE THEN NBSP ELSE name[k]] \o <<ZWSP>>

\* The k-th month from April 2023 on, as YYYYMM.
Ym(k) ==
    LET o == 2023 * 12 + 3 + (k - 1)
    IN  (o \div 12) * 100 + (o % 12) + 1

\* The indicators with a column: all but `dev` when form is "absent".
ColumnsOf(dev, form) ==
    SelectSeq(<<1, 2, 3>>, LAMBDA k : ~(k = dev /\ form = "absent"))

\* A KPI table: merchant 2, closed, with months 1..c2, then merchant 1,
\* active, with months a1 down to 1.  The cell of indicator nanAt is missing
\* in the first month of merchant 1.  The column of indicator dev is absent
\* or spelled with other blanks.
KpiTable(a1, c2, nanAt, dev, form) ==
    LET inds == ColumnsOf(dev, form)
        name(k) == IF k = dev /\ form = "variant"
                   THEN Variant(indicators[k]) ELSE indicators[k]
        cells(m, month) ==
            [j \in 1..Len(inds) |->
                IF m = 1 /\ month = 1 /\ inds[j] = nanAt THEN NaN ELSE "number"]
    IN  [columns |-> [j \in 1..Len(inds) |-> name(inds[j])],
         rows |->
            [k \in 1..c2 |-> [merchant |-> 2, ym |-> Ym(k), closed |-> 1,
                              values |-> cells(2, k)]]
            \o
            [k \in 1..a1 |-> [merchant |-> 1, ym |-> Ym(a1 + 1 - k), closed |-> 0,
                              values |-> cells(1, a1 + 1 - k)]] ]

\* A threshold file: a row per indicator but `missing`, the names spelled as
\* in the code or with other blanks, the cells numbers, numeric strings or a
\* string that is no number.
ThresholdFile(missing, form, kind) ==
    LET inds == SelectSeq(<<1, 2, 3>>, LAMBDA k : k /= missing)
    IN  [j \in 1..Len(inds) |->
            [label |-> IF form = "variant" THEN Variant(indicators[inds[j]])
                       ELSE indicators[inds[j]],
             warn |-> CASE kind = "number" -> NumberCell(5)
                        [] kind = "string" -> StringCell("5.0")
                        [] kind = "other" -> NumberCell(6)
                        [] OTHER -> StringCell("n/a"),
             danger |-> CASE kind = "number" -> NumberCell(8)
                          [] kind = "string" -> StringCell("8.0")
                          [] kind = "other" -> NumberCell(9)
                          [] OTHER -> NumberCell(8)]]

RowChoices == {0} \cup ((MinPoints - 1)..MaxRows)
ForecastChoices == (0..1) \cup (ForecastMonthsDefault..MaxForecast)
PreCloseChoices == (0..MaxPreClose) \cup {PreCloseMonthsDefault}

\* Dashboard.py:58 passes the tables of the module and no more; any other
\* caller passes what it likes.
Init ==
    /\ normIn = <<>>
    /\ normOut = <<>>
    /\ \E a1 \in RowChoices, c2 \in 0..MaxClosed,
          col \in {<<0, "exact">>, <<2, "variant">>, <<3, "absent">>} :
          last_df = KpiTable(a1, c2, 1, col[1], col[2])
    /\ \E row \in {<<0, "exact">>, <<0, "variant">>, <<2, "exact">>},
          kind \in {"number", "string", "bad"} :
          module_threshold = LoadThreshold(ThresholdFile(row[1], row[2], kind))
    /\ caller \in {"Dashboard", "direct"}
    /\ IF caller = "Dashboard"
       THEN /\ threshold_df = module_threshold
            /\ forecast_months = ForecastMonthsDefault
            /\ pre_close_months = PreCloseMonthsDefault
            /\ dashboard = "called"
       ELSE /\ threshold_df \in
                 {module_threshold,
                  LoadThreshold(ThresholdFile(0, "exact", "other")),
                  LoadThreshold(ThresholdFile(1, "exact", "other"))}
            /\ forecast_months \in ForecastChoices
            /\ pre_close_months \in PreCloseChoices
            /\ dashboard = "none"
    /\ pc = "start"
    /\ total_df = [columns |-> <<>>, rows |-> <<>>]
    /\ idx = 1
    /\ results = <<>>
    /\ printed = <<>>
    /\ evalCalls = <<>>
    /\ raised = NoException
    /\ returned = [columns |-> <<>>, rows |-> <<>>]

Spec == Init /\ [][Next]_vars

----------------------------------------------------------------------------
(* Properties of a call                                                     *)

Finished == pc \in {"returned", "raised"}

SeqToSet(seq) == {seq[k] : k \in 1..Len(seq)}

\* The indicator has a row in the threshold table handed to the call, under
\* a name with the same key.
InThresholdArgument(k) ==
    \E j \in 1..Len(threshold_df) : _norm(threshold_df[j].label) = _norm(indicators[k])

\* The indicator has a column in the windowed KPI table, under a name with
\* the same key.
InKpiColumns(k) ==
    \E j \in 1..Len(total_df.columns) : _norm(total_df.columns[j]) = _norm(indicators[k])

\* The number of non-missing points of the indicator after windowing.
Points(k) ==
    LET p == CHOOSE j \in 1..Len(total_df.columns) :
                 _norm(total_df.columns[j]) = _norm(indicators[k])
    IN  Cardinality({j \in 1..Len(total_df.rows) : total_df.rows[j].values[p] /= NaN})

\* The label a row of the indicator carries.
LabelOf(k) == EnglishTitle(ResolveColumn(indicators[k], total_df.columns))

RowsOf(k, rows) ==
    {j \in 1..Len(rows) : InKpiColumns(k) /\ rows[j]["Indicator"] = LabelOf(k)}

\* C1: an indicator that resolves in the threshold table and in the KPI
\* columns and has at least MinPoints points gets exactly one row of the
\* returned table, whatever the call.
OneRowPerQualifiedIndicator ==
    Finished =>
        \A k \in 1..Len(indicators) :
            ( /\ IdxMapGet(_norm(indicators[k])) /= None
              /\ InThresholdArgument(k)
              /\ InKpiColumns(k)
              /\ Points(k) >= MinPoints )
            => /\ pc = "returned"
               /\ Cardinality(RowsOf(k, returned.rows)) = 1

\* C2: an indicator missing from the threshold table handed to the call, or
\* from the KPI columns, or with fewer than MinPoints points, raises nothing
\* and has no row in the returned table.
UnqualifiedIndicatorSkipped ==
    \A k \in 1..Len(indicators) :
        ( /\ pc \in {"loop", "returned", "raised"}
          /\ \/ ~InThresholdArgument(k)
             \/ ~InKpiColumns(k)
             \/ Points(k) < MinPoints )
        => /\ raised.indicator /= k
           /\ pc = "returned" => RowsOf(k, returned.rows) = {}

\* C3: a failure inside one indicator's pass never leaves the call; the
\* call goes on to the indicators after it.
FailureNeverEscapes == pc /= "raised" /\ raised = NoException

\* C5: when every indicator was skipped the returned table is empty and has
\* the columns of a table with rows, the chart column included.
EmptyTableHasRowColumns ==
    (pc = "returned" /\ returned.rows = <<>>)
        => SeqToSet(returned.columns) = SeqToSet(RowColumns)

\* C6: evaluate_forecast is handed two tails of the same length,
\* min(forecast_months, number of observed points).
TailsHaveMinLength ==
    \A j \in 1..Len(evalCalls) :
        /\ Len(evalCalls[j].y_true) = Min(forecast_months, evalCalls[j].points)
        /\ Len(evalCalls[j].y_pred) = Min(forecast_months, evalCalls[j].points)

\* The cell the threshold table handed to the call holds for the indicator,
\* cast to float; <<>> when there is no one such cell or the cast fails.
ArgumentThreshold(k, field) ==
    LET hits == SelectSeq(threshold_df,
                          LAMBDA r : _norm(r.label) = _norm(indicators[k]))
        x == Float(IF field = "warn" THEN hits[1].warn ELSE hits[1].danger)
    IN  IF Len(hits) = 1 /\ x.ok THEN <<x.f>> ELSE <<>>

\* C7: the thresholds of a row are the float casts of the cells the
\* threshold_df argument holds for the row's indicator, and reading them
\* never raises.
ThresholdsOfArgumentNeverRaise ==
    /\ raised.why /= "threshold"
    /\ \A k \in 1..Len(indicators) : \A j \in RowsOf(k, results) :
          /\ results[j]["Warning Threshold"] = ArgumentThreshold(k, "warn")
          /\ results[j]["Danger Threshold"] = ArgumentThreshold(k, "danger")

PredictedAfterObserved ==
    \A j \in 1..Len(evalCalls) :
        LET c == evalCalls[j]
        IN  forecast_months >= 1 =>
                /\ c.y_pred = [p \in 1..forecast_months |-> c.last_observed + p]
                /\ \A p \in 1..Len(c.y_true) : c.y_true[p] <= c.last_observed
                /\ \A p \in 1..Len(c.y_true), q \in 1..Len(c.y_pred) :
                       c.y_true[p] /= c.y_pred[q]

\* evaluate_forecast computed the errors of a call whose true values hold two
\* rows of one month.
PredictedWitness ==
    \E j \in 1..Len(evalCalls) :
        LET c == evalCalls[j]
        IN  /\ forecast_months >= 1
            /\ Len(c.y_true) = Len(c.y_pred)
            /\ \E p \in 1..Len(c.y_true), q \in 1..Len(c.y_true) :
                   p < q /\ c.y_true[p] = c.y_true[q]
            /\ Len(results) >= 1

----------------------------------------------------------------------------
(* The windowing step on every small table                                  *)

MaxMonths == 3
MaxWindow == 2

WindowMerchants == {1, 2}

\* A table with a row for each (merchant, month) f marks, flagged as f says,
\* the later months first and within a month the higher merchant id first.
FlagTable(f) ==
    LET w == Cardinality(WindowMerchants)
        cell == [q \in 1..(w * MaxMonths) |->
                    [merchant |-> w - ((q - 1) % w),
                     month |-> MaxMonths - ((q - 1) \div w)]]
        marked == SelectSeq(cell, LAMBDA c : f[c.merchant, c.month] /= "no row")
    IN  [columns |-> <<>>,
         rows |-> [k \in 1..Len(marked) |->
                     [merchant |-> marked[k].merchant,
                      ym |-> Ym(marked[k].month),
                      closed |-> IF f[marked[k].merchant, marked[k].month] = "closed"
                                 THEN 1 ELSE 0,
                      values |-> <<>>]]]

InitWindow ==
    /\ normIn = <<>>
    /\ normOut = <<>>
    /\ caller = "direct"
    /\ module_threshold = <<>>
    /\ threshold_df = <<>>
    /\ \E f \in [WindowMerchants \X (1..MaxMonths) -> {"no row", "active", "closed"}] :
          last_df = FlagTable(f)
    /\ forecast_months = ForecastMonthsDefault
    /\ pre_close_months \in 0..MaxWindow
    /\ pc = "start"
    /\ total_df = [columns |-> <<>>, rows |-> <<>>]
    /\ idx = 1
    /\ results = <<>>
    /\ printed = <<>>
    /\ evalCalls = <<>>
    /\ raised = NoException
    /\ returned = [columns |-> <<>>, rows |-> <<>>]
    /\ dashboard = "none"

NextWindow == Windowing

SpecWindow == InitWindow /\ [][NextWindow]_vars

\* The rows of a merchant with the given flags, as (date, flag) pairs.
RowsOfMerchant(rows, m, flags) ==
    {<<rows[k].ds, rows[k].closed>> :
        k \in {j \in 1..Len(rows) : rows[j].merchant = m /\ rows[j].closed \in flags}}

\* The rows kept are rows of the input, and no dropped row is later than a
\* kept one.
LatestOf(kept, all) ==
    /\ kept \subseteq all
    /\ \A r \in kept : \A x \in all \ kept : x[1] <= r[1]

----------------------------------------------------------------------------
(* _norm on its own: every pair of strings up to MaxLen characters          *)

MaxLen == 3

Alphabet == {"a", "A", SPACE, NBSP, ZWSP}

Strings == UNION {[1..n -> Alphabet] : n \in 0..MaxLen}

\* The letters of a string, in order: what is left when every kind of blank
\* is taken out.
Letters(s) == SelectSeq(s, LAMBDA c : c \notin {SPACE, NBSP, ZWSP})

Lower(c) == IF c = "A" THEN "a" ELSE c

LowerAll(s) == [k \in 1..Len(s) |-> Lower(s[k])]

Idle ==
    /\ caller = "none"
    /\ module_threshold = <<>>
    /\ last_df = [columns |-> <<>>, rows |-> <<>>]
    /\ threshold_df = <<>>
    /\ forecast_months = 0
    /\ pre_close_months = 0
    /\ pc = "idle"
    /\ total_df = [columns |-> <<>>, rows |-> <<>>]
    /\ idx = 1
    /\ results = <<>>
    /\ printed = <<>>
    /\ evalCalls = <<>>
    /\ raised = NoException
    /\ returned = [columns |-> <<>>, rows |-> <<>>]
    /\ dashboard = "none"

InitNorm ==
    /\ normIn \in Strings \X Strings
    /\ normOut = <<>>
    /\ Idle

\* key = _norm(s) for both strings, and _norm again on the first key.
Normalize ==
    /\ normOut = <<>>
    /\ normIn /= <<>>
    /\ normOut' = <<_norm(normIn[1]), _norm(normIn[2]), _norm(_norm(normIn[1]))>>
    /\ UNCHANGED <<normIn, callVars, runVars>>

NextNorm == Normalize

SpecNorm == InitNorm /\ [][NextNorm]_vars

====
